---- MODULE Spec2Model ----
(***************************************************************************)
(* A model of tools/autograd/gen_autograd.py: the type normalizer          *)
(* (get_simple_type), the declaration enricher (load_aten_declarations),   *)
(* the signature grouper and deprecated-signature resolver                 *)
(* (load_deprecated_signatures) and the two pipelines (gen_autograd,       *)
(* gen_autograd_python).                                                   *)
(*                                                                         *)
(* Python str values are TLA+ strings; Python dicts are functions from     *)
(* key strings to values (a missing key is a key outside DOMAIN); the      *)
(* declaration dicts and their 'arguments' lists live in a heap of         *)
(* objects addressed by identity, so that copying and aliasing can be      *)
(* told apart.                                                             *)
(***************************************************************************)
EXTENDS Integers, Sequences, FiniteSets, TLC

VARIABLES
    pc,                         \* position of the running entry point
    heap,                       \* object store: id -> dict or list
    full_aten_decls,            \* gen_autograd: the enriched list, as ids
    aten_decls,                 \* the enriched (gen_autograd: filtered) list
    autograd_functions,         \* what load_derivatives returned
    declarations_yaml,          \* the entries of Declarations.yaml
    deprecated_defs,            \* the entries of deprecated.yaml
    declarations_by_signature,  \* defaultdict(list): signature -> list of ids
    declarations,               \* load_deprecated_signatures' result list
    spec_idx,                   \* index of the deprecated entry being resolved
    entry_heap,                 \* the heap as load_deprecated_signatures found it
    operator_selector,          \* gen_autograd: the operator names selected
    disable_autograd,           \* gen_autograd: its flag
    handoff,                    \* emitter name -> the declaration list it got
    arg_type,                   \* normalizer run: the raw type string
    simple_once,                \* normalizer run: get_simple_type(arg_type)
    simple_twice                \* normalizer run: get_simple_type of that

vars == <<pc, heap, full_aten_decls, aten_decls, autograd_functions, declarations_yaml, deprecated_defs,
          declarations_by_signature,
          declarations, spec_idx, entry_heap, operator_selector,
          disable_autograd, handoff, arg_type, simple_once, simple_twice>>

pipeVars == <<heap, full_aten_decls, aten_decls, autograd_functions, declarations_yaml, deprecated_defs,
              declarations_by_signature,
              declarations, spec_idx, entry_heap, operator_selector,
              disable_autograd, handoff>>

normVars == <<arg_type, simple_once, simple_twice>>

----------------------------------------------------------------------------
(* Bounds of the model *)

MaxDecls == 2       \* declarations in Declarations.yaml
MaxSpecs == 2       \* entries in deprecated.yaml
MaxFrags == 3       \* fragments a raw type string is assembled from

----------------------------------------------------------------------------
(* Python str operations *)

\* s[i:] with a 0-based i, as a 1-based suffix start
StrFrom(s, i) == IF i > Len(s) THEN "" ELSE SubSeq(s, i, Len(s))

StartsWith(s, p) == Len(s) >= Len(p) /\ SubSeq(s, 1, Len(p)) = p

\* str.replace(old, new): left to right, non-overlapping
RECURSIVE StrReplace(_, _, _)
StrReplace(s, old, new) ==
    IF Len(s) < Len(old) THEN s
    ELSE IF StartsWith(s, old)
         THEN new \o StrReplace(StrFrom(s, Len(old) + 1), old, new)
         ELSE SubSeq(s, 1, 1) \o StrReplace(StrFrom(s, 2), old, new)

\* str.find(sep): the 1-based position of the first occurrence, 0 if none
RECURSIVE StrFindFrom(_, _, _)
StrFindFrom(s, sep, i) ==
    IF i + Len(sep) - 1 > Len(s) THEN 0
    ELSE IF SubSeq(s, i, i + Len(sep) - 1) = sep THEN i
         ELSE StrFindFrom(s, sep, i + 1)

StrFind(s, sep) == StrFindFrom(s, sep, 1)

\* str.rfind(sep): the 1-based position of the last occurrence, 0 if none
RECURSIVE StrRFindFrom(_, _, _)
StrRFindFrom(s, sep, i) ==
    IF i < 1 THEN 0
    ELSE IF SubSeq(s, i, i + Len(sep) - 1) = sep THEN i
         ELSE StrRFindFrom(s, sep, i - 1)

StrRFind(s, sep) == StrRFindFrom(s, sep, Len(s) - Len(sep) + 1)

\* str.split(sep)
RECURSIVE StrSplit(_, _)
StrSplit(s, sep) ==
    LET i == StrFind(s, sep)
    IN  IF i = 0 THEN <<s>>
        ELSE <<SubSeq(s, 1, i - 1)>> \o StrSplit(StrFrom(s, i + Len(sep)), sep)

\* sep.join(parts)
RECURSIVE StrJoin(_, _)
StrJoin(sep, parts) ==
    IF Len(parts) = 0 THEN ""
    ELSE IF Len(parts) = 1 THEN parts[1]
         ELSE parts[1] \o sep \o StrJoin(sep, Tail(parts))

\* dict.get(key, default)
DictGet(d, k, default) == IF k \in DOMAIN d THEN d[k] ELSE default

----------------------------------------------------------------------------
(* get_simple_type *)

OptPrefix == "c10::optional<"

\* re.match(r'c10::optional<(.+)>', s): anchored at the start only, the
\* group greedy, so it runs to the last '>' that leaves it non-empty.
\* The result is <<matched, group(1)>>.
OptMatch(s) ==
    LET last == StrRFind(s, ">")
    IN  IF StartsWith(s, OptPrefix) /\ last >= Len(OptPrefix) + 2
        THEN <<TRUE, SubSeq(s, Len(OptPrefix) + 1, last - 1)>>
        ELSE <<FALSE, "">>

get_simple_type(arg) ==
    LET t1 == StrReplace(StrReplace(arg["type"], " &", ""), "const ", "")
        t2 == StrReplace(t1, "Generator *", "Generator")
        m  == OptMatch(t2)
    IN  IF m[1] THEN m[2] \o "?" ELSE t2

----------------------------------------------------------------------------
(* The input documents *)

Arg(name, type, dynamic_type) ==
    [name |-> name, type |-> type, dynamic_type |-> dynamic_type]

OutArg(name, type, dynamic_type) ==
    [name |-> name, type |-> type, dynamic_type |-> dynamic_type,
     output |-> TRUE]

Ret(type) == [type |-> type, dynamic_type |-> "Tensor"]

RawDecl(name, overload_name, inplace, arguments, returns, schema_string) ==
    [name |-> name, overload_name |-> overload_name, inplace |-> inplace,
     arguments |-> arguments, schema_order_arguments |-> arguments,
     returns |-> returns, schema_string |-> schema_string]

\* Entries Declarations.yaml may hold
DeclPool ==
    { RawDecl("add", "Tensor", FALSE,
              << Arg("self", "const Tensor &", "Tensor"),
                 Arg("other", "const Tensor &", "Tensor"),
                 [default |-> 1] @@ Arg("alpha", "Scalar", "Scalar") >>,
              << Ret("Tensor") >>,
              "aten::add.Tensor(Tensor self, Tensor other, *, Scalar alpha=1) -> Tensor"),
      RawDecl("add_", "Tensor", TRUE,
              << Arg("self", "Tensor &", "Tensor"),
                 Arg("other", "const Tensor &", "Tensor"),
                 Arg("alpha", "Scalar", "Scalar") >>,
              << Ret("Tensor &") >>,
              "aten::add_.Tensor(Tensor(a!) self, Tensor other, *, Scalar alpha=1) -> Tensor(a!)"),
      RawDecl("mul_", "Tensor", TRUE,
              << Arg("self", "Tensor &", "Tensor"),
                 Arg("other", "const Tensor &", "Tensor") >>,
              << Ret("Tensor &") >>,
              "aten::mul_.Tensor(Tensor(a!) self, Tensor other) -> Tensor(a!)"),
      RawDecl("add_out", "", FALSE,
              << OutArg("out", "Tensor &", "Tensor"),
                 Arg("self", "const Tensor &", "Tensor"),
                 Arg("other", "const Tensor &", "Tensor") >>,
              << Ret("Tensor &") >>,
              "aten::add_out(Tensor(a!) out, Tensor self, Tensor other) -> Tensor(a!)"),
      RawDecl("add", "out", FALSE,
              << Arg("self", "const Tensor &", "Tensor"),
                 Arg("alpha", "c10::optional<Scalar>", "Scalar") >>,
              << Ret("Tensor"), Ret("Tensor") >>,
              "aten::add.out(Tensor self, Scalar? alpha) -> (Tensor, Tensor)"),
      [deprecated |-> TRUE] @@
      RawDecl("sub", "", FALSE,
              << Arg("self", "const Tensor &", "Tensor") >>,
              << >>,
              "aten::sub(Tensor self) -> ()") }

\* Entries deprecated.yaml may hold
SpecPool ==
    { [name |-> "add(Tensor self, Scalar alpha, Tensor other)",
       aten |-> "add(self, other, alpha)"],
      [name |-> "add(Tensor self, *, Tensor other)",
       aten |-> "add(self, other, 1)"],
      [name |-> "square(Tensor self)",
       aten |-> "mul(self, self)"],
      [name |-> "sub(Tensor self, Scalar alpha, Tensor other)",
       aten |-> "sub(self, other, alpha)"],
      [name |-> "add(Tensor self, Tensor other, Scalar alpha, Tensor extra)",
       aten |-> "add(self, other, alpha)"],
      [name |-> "sub(Tensor self, Tensor extra)",
       aten |-> "sub(self, 1)"] }

Range(seq) == {seq[i] : i \in DOMAIN seq}

\* The lists of n distinct entries of a pool, n = 1 .. max
DistinctLists(pool, max) ==
    {l \in UNION {[1..n -> pool] : n \in 1..max} :
        \A i, j \in DOMAIN l : l[i] = l[j] => i = j}

----------------------------------------------------------------------------
(* load_aten_declarations *)

format_return_type(returns) ==
    IF Len(returns) = 0 THEN "void"
    ELSE IF Len(returns) = 1 THEN returns[1]["type"]
         ELSE "std::tuple<"
                \o StrJoin(",", [i \in DOMAIN returns |-> returns[i]["type"]])
                \o ">"

\* for arg in ...: arg['simple_type'] = get_simple_type(arg)
WithSimpleTypes(args) ==
    [i \in DOMAIN args |->
        ("simple_type" :> get_simple_type(args[i])) @@ args[i]]

Formals(args) ==
    [i \in DOMAIN args |-> args[i]["type"] \o " " \o args[i]["name"]]

ArgNames(args) == [i \in DOMAIN args |-> args[i]["name"]]

type_wrapper_name(declaration) ==
    IF DictGet(declaration, "overload_name", "") # ""
    THEN declaration["name"] \o "_" \o declaration["overload_name"]
    ELSE declaration["name"]

\* The keys the loop body of load_aten_declarations sets on a declaration
EnrichedFields(raw) ==
    LET operator_name_with_overload == StrSplit(raw["schema_string"], "(")[1]
    IN  ( "schema_order_arguments" :> WithSimpleTypes(raw["schema_order_arguments"])
       @@ "returns" :> WithSimpleTypes(raw["returns"])
       @@ "formals" :> Formals(raw["arguments"])
       @@ "schema_order_formals" :> Formals(raw["schema_order_arguments"])
       @@ "args" :> ArgNames(raw["arguments"])
       @@ "schema_order_args" :> ArgNames(raw["schema_order_arguments"])
       @@ "api_name" :> raw["name"]
       @@ "type_wrapper_name" :> type_wrapper_name(raw)
       @@ "operator_name_with_overload" :> operator_name_with_overload
       @@ "unqual_operator_name_with_overload" :>
              StrSplit(operator_name_with_overload, "::")[2]
       @@ "return_type" :> format_return_type(raw["returns"])
       @@ "base_name" :> raw["name"] )
       @@ raw

\* The enrichment of every entry of the pool, evaluated once
EnrichedPool ==
    [raw \in DeclPool |->
        [fields |-> EnrichedFields(raw),
         arguments |-> WithSimpleTypes(raw["arguments"])]]

\* The objects yaml.load builds, enriched in place: entry k of the document
\* is the dict 2k-1 and its 'arguments' list is the object 2k. An entry
\* flagged deprecated is left as loaded.
LoadedHeap(yaml) ==
    [i \in 1..(2 * Len(yaml)) |->
        LET raw == yaml[(i + 1) \div 2]
            skip == DictGet(raw, "deprecated", FALSE)
        IN  IF i % 2 = 1
            THEN ("arguments" :> (i + 1))
                    @@ (IF skip THEN raw ELSE EnrichedPool[raw].fields)
            ELSE IF skip THEN raw["arguments"]
                 ELSE EnrichedPool[raw].arguments]

RECURSIVE SelectedFrom(_, _)
SelectedFrom(yaml, k) ==
    IF k > Len(yaml) THEN <<>>
    ELSE IF DictGet(yaml[k], "deprecated", FALSE)
         THEN SelectedFrom(yaml, k + 1)
         ELSE <<2 * k - 1>> \o SelectedFrom(yaml, k + 1)

\* selected_declarations
load_aten_declarations(yaml) == SelectedFrom(yaml, 1)

----------------------------------------------------------------------------
(* load_deprecated_signatures *)

\* name[:-1]
DropLast(name) == IF Len(name) <= 1 THEN "" ELSE SubSeq(name, 1, Len(name) - 1)

\* '{}({})'.format(name, ', '.join(types))
FormatSignature(name, types) == name \o "(" \o StrJoin(", ", types) \o ")"

\* Mutant: the in-place marker is kept
BaseNameUnstripped(declaration) == declaration["name"]

BaseName(declaration) ==
    IF declaration["inplace"] THEN DropLast(declaration["name"])
    ELSE declaration["name"]

SimpleTypes(h, declaration) ==
    LET arguments == h[declaration["arguments"]]
    IN  [i \in DOMAIN arguments |-> arguments[i]["simple_type"]]

\* The key group_declarations_by_signature files a declaration under
DeclSignature(h, id) ==
    FormatSignature(BaseName(h[id]), SimpleTypes(h, h[id]))

\* Mutant: d[signature].insert(0, declaration)
DictPrepend(d, key, id) ==
    IF key \in DOMAIN d
    THEN [d EXCEPT ![key] = <<id>> \o @]
    ELSE d @@ (key :> <<id>>)

\* d[signature].append(declaration) on a defaultdict(list)
DictAppend(d, key, id) ==
    IF key \in DOMAIN d
    THEN [d EXCEPT ![key] = Append(@, id)]
    ELSE d @@ (key :> <<id>>)

RECURSIVE GroupFrom(_, _, _, _)
GroupFrom(h, ids, k, d) ==
    IF k > Len(ids) THEN d
    ELSE GroupFrom(h, ids, k + 1, DictAppend(d, DeclSignature(h, ids[k]), ids[k]))

group_declarations_by_signature(h, ids) == GroupFrom(h, ids, 1, <<>>)

\* split_name_params(prototype): the name before '(' and the ', '-separated
\* text between the parentheses
split_name_params(prototype) ==
    LET open == StrFind(prototype, "(")
    IN  << SubSeq(prototype, 1, open - 1),
           StrSplit(SubSeq(prototype, open + 1, Len(prototype) - 1), ", ") >>

\* [param.split(' ') for param in params if param != '*']
RECURSIVE ParamPairs(_)
ParamPairs(params) ==
    IF Len(params) = 0 THEN <<>>
    ELSE IF Head(params) = "*" THEN ParamPairs(Tail(params))
         ELSE <<StrSplit(Head(params), " ")>> \o ParamPairs(Tail(params))

\* dict(pairs) over <<value, key>> pairs: a later pair replaces an earlier
\* one with the same key
DictOfReversed(pairs) ==
    [key \in {pairs[i][2] : i \in DOMAIN pairs} |->
        LET last == CHOOSE i \in DOMAIN pairs :
                        /\ pairs[i][2] = key
                        /\ \A j \in DOMAIN pairs : pairs[j][2] = key => j <= i
        IN  pairs[last][1]]

get_signature(name, params, call_args) ==
    LET types == DictOfReversed(ParamPairs(params))
        rearranged_types ==
            [i \in DOMAIN call_args |-> DictGet(types, call_args[i], "Scalar")]
    IN  FormatSignature(name, rearranged_types)

\* What the head of the loop body computes for an entry of deprecated.yaml
ParsedSpec(deprecated) ==
    LET aten == split_name_params(deprecated["aten"])
        legacy == split_name_params(deprecated["name"])
    IN  [aten_name |-> aten[1],
         call_args |-> aten[2],
         name |-> legacy[1],
         params |-> legacy[2],
         signature |-> get_signature(aten[1], legacy[2], aten[2])]

\* The same for every entry of the pool, evaluated once
ParsedPool == [deprecated \in SpecPool |-> ParsedSpec(deprecated)]

\* Mutant: the first position of a repeated name, as call_args.index(arg)
call_arg_first_idx(call_args) ==
    [arg \in Range(call_args) |->
        CHOOSE i \in DOMAIN call_args :
            /\ call_args[i] = arg
            /\ \A j \in DOMAIN call_args : call_args[j] = arg => i <= j]

\* Mutant: enumerate(call_args, 1), every position one too far
call_arg_idx_shifted(call_args) ==
    [arg \in Range(call_args) |->
        1 + CHOOSE i \in DOMAIN call_args :
                /\ call_args[i] = arg
                /\ \A j \in DOMAIN call_args : call_args[j] = arg => j <= i]

\* {arg: i for i, arg in enumerate(call_args)}: a later position replaces
\* an earlier one of the same name (positions are 1-based here)
call_arg_to_idx(call_args) ==
    [arg \in Range(call_args) |->
        CHOOSE i \in DOMAIN call_args :
            /\ call_args[i] = arg
            /\ \A j \in DOMAIN call_args : call_args[j] = arg => j <= i]

\* Mutant: call_arg_to_idx.get(param_name, 0), the first position standing
\* in for a name that is no call argument
ArgIndexOrFirst(idx, param_name) ==
    IF param_name \in DOMAIN idx THEN idx[param_name] ELSE 1

\* call_arg_to_idx[param_name]: the position, or 0 for a KeyError
ArgIndex(idx, param_name) ==
    IF param_name \in DOMAIN idx THEN idx[param_name] ELSE 0

\* The loop over params that builds the new arguments list; ok is FALSE
\* when a lookup raised (KeyError, IndexError).
RECURSIVE BuildArguments(_, _, _, _)
BuildArguments(params, kwarg_only, idx, original_args) ==
    IF Len(params) = 0 THEN [ok |-> TRUE, arguments |-> <<>>]
    ELSE IF Head(params) = "*"
         THEN BuildArguments(Tail(params), TRUE, idx, original_args)
         ELSE LET param_name == StrSplit(Head(params), " ")[2]
                  i == ArgIndex(idx, param_name)
              IN  IF i = 0 \/ i > Len(original_args)
                  THEN [ok |-> FALSE, arguments |-> <<>>]
                  ELSE LET original == original_args[i]
                           rest == BuildArguments(Tail(params), kwarg_only,
                                                  idx, original_args)
                       IN  [ok |-> rest.ok,
                            arguments |->
                               << [name |-> param_name,
                                   kwarg_only |-> kwarg_only,
                                   type |-> original["type"],
                                   simple_type |-> original["simple_type"],
                                   dynamic_type |-> original["dynamic_type"],
                                   output |-> DictGet(original, "output", FALSE)] >>
                               \o rest.arguments]

\* Mutant: no copy, the canonical declaration itself is rewritten
NoCopy(h, id) == [heap |-> h, id |-> id]

\* copy.deepcopy(declaration): a new dict and a new 'arguments' list
DeepCopy(h, id) ==
    [heap |-> h \o << [h[id] EXCEPT !["arguments"] = Len(h) + 2],
                      h[h[id]["arguments"]] >>,
     id |-> Len(h) + 1]

\* The body of `for declaration in declarations_by_signature[signature]`
\* for one declaration
ResolveOne(h, id, call_args, params) ==
    LET copied == DeepCopy(h, id)
        cid == copied.id
        h1 == [copied.heap EXCEPT ![cid] =
                  ("deprecated" :> TRUE @@ "call_args" :> call_args) @@ @]
        original_args == h1[h1[cid]["arguments"]]
        built == BuildArguments(params, FALSE, call_arg_to_idx(call_args),
                                original_args)
    IN  IF ~built.ok THEN [ok |-> FALSE, heap |-> h1, id |-> cid]
        ELSE [ok |-> TRUE,
              heap |-> Append([h1 EXCEPT ![cid]["arguments"] = Len(h1) + 1],
                              built.arguments),
              id |-> cid]

RECURSIVE ResolveBucket(_, _, _, _, _, _)
ResolveBucket(h, bucket, k, call_args, params, decls) ==
    IF k > Len(bucket) THEN [ok |-> TRUE, heap |-> h, declarations |-> decls]
    ELSE LET one == ResolveOne(h, bucket[k], call_args, params)
         IN  IF ~one.ok
             THEN [ok |-> FALSE, heap |-> one.heap, declarations |-> decls]
             ELSE ResolveBucket(one.heap, bucket, k + 1, call_args, params,
                                Append(decls, one.id))

\* Mutant: a plain dict, where a missing key is a KeyError
PlainDictGet(d, key) ==
    [ok |-> key \in DOMAIN d,
     value |-> DictGet(d, key, <<>>),
     dict |-> d]

\* declarations_by_signature[signature] on a defaultdict(list): a missing
\* key is inserted with an empty list, never an error
DefaultDictGet(d, key) ==
    [ok |-> TRUE,
     value |-> DictGet(d, key, <<>>),
     dict |-> IF key \in DOMAIN d THEN d ELSE d @@ (key :> <<>>)]

----------------------------------------------------------------------------
(* gen_autograd_python: the bindings pipeline *)

Unused ==
    /\ operator_selector = {}
    /\ disable_autograd = FALSE
    /\ full_aten_decls = <<>>
    /\ arg_type = ""
    /\ simple_once = ""
    /\ simple_twice = ""

Init ==
    /\ pc = "py_start"
    /\ declarations_yaml \in DistinctLists(DeclPool, MaxDecls)
    /\ deprecated_defs \in DistinctLists(SpecPool, MaxSpecs)
    /\ heap = <<>>
    /\ aten_decls = <<>>
    /\ autograd_functions = <<>>
    /\ declarations_by_signature = <<>>
    /\ declarations = <<>>
    /\ spec_idx = 0
    /\ entry_heap = <<>>
    /\ handoff = <<>>
    /\ Unused

\* aten_decls = load_aten_declarations(aten_path);
\* autograd_functions = load_derivatives(..., aten_decls)
PyLoadAtenDeclarations ==
    /\ pc = "py_start"
    /\ heap' = LoadedHeap(declarations_yaml)
    /\ aten_decls' = load_aten_declarations(declarations_yaml)
    /\ autograd_functions' = [loaded_against |-> aten_decls']
    /\ pc' = "py_loaded"
    /\ UNCHANGED <<full_aten_decls, declarations_yaml, deprecated_defs,
                   declarations_by_signature, declarations, spec_idx,
                   entry_heap, operator_selector, disable_autograd, handoff>>
    /\ UNCHANGED normVars

\* load_deprecated_signatures up to its loop: the deprecated document is
\* read, declarations = [], the canonical declarations are grouped
GroupDeclarations ==
    /\ pc = "py_loaded"
    /\ entry_heap' = heap
    /\ declarations' = <<>>
    /\ declarations_by_signature' =
            group_declarations_by_signature(heap, aten_decls)
    /\ spec_idx' = 1
    /\ pc' = "resolve"
    /\ UNCHANGED <<heap, full_aten_decls, aten_decls, autograd_functions,
                   declarations_yaml, deprecated_defs, operator_selector,
                   disable_autograd, handoff>>
    /\ UNCHANGED normVars

\* One iteration of `for deprecated in deprecated_defs`
ResolveDeprecated ==
    /\ pc = "resolve"
    /\ spec_idx <= Len(deprecated_defs)
    /\ LET deprecated == ParsedPool[deprecated_defs[spec_idx]]
           call_args == deprecated.call_args
           params == deprecated.params
           signature == deprecated.signature
           found == DefaultDictGet(declarations_by_signature, signature)
           r == ResolveBucket(heap, found.value, 1, call_args, params,
                              declarations)
       IN  IF ~found.ok
           THEN /\ pc' = "failed"
                /\ UNCHANGED <<heap, declarations, spec_idx,
                               declarations_by_signature>>
           ELSE /\ declarations_by_signature' = found.dict
                /\ heap' = r.heap
                /\ declarations' = r.declarations
                /\ IF r.ok
                   THEN /\ spec_idx' = spec_idx + 1
                        /\ pc' = pc
                   ELSE /\ spec_idx' = spec_idx
                        /\ pc' = "failed"
    /\ UNCHANGED <<full_aten_decls, aten_decls, autograd_functions,
                   declarations_yaml, deprecated_defs, entry_heap,
                   operator_selector, disable_autograd, handoff>>
    /\ UNCHANGED normVars

\* return declarations
ReturnDeclarations ==
    /\ pc = "resolve"
    /\ spec_idx > Len(deprecated_defs)
    /\ pc' = "py_resolved"
    /\ UNCHANGED pipeVars
    /\ UNCHANGED normVars

\* The hand-offs to gen_python_functions
GenPyFunctions ==
    /\ pc = "py_resolved"
    /\ handoff' =
          [gen_py_variable_methods |-> aten_decls \o declarations,
           gen_py_torch_functions |-> aten_decls \o declarations,
           gen_py_nn_functions |-> aten_decls,
           gen_py_fft_functions |-> aten_decls,
           gen_py_linalg_functions |-> aten_decls]
    /\ pc' = "py_done"
    /\ UNCHANGED <<heap, full_aten_decls, aten_decls, autograd_functions,
                   declarations_yaml, deprecated_defs,
                   declarations_by_signature, declarations, spec_idx,
                   entry_heap, operator_selector, disable_autograd>>
    /\ UNCHANGED normVars

Next ==
    \/ PyLoadAtenDeclarations
    \/ GroupDeclarations
    \/ ResolveDeprecated
    \/ ReturnDeclarations
    \/ GenPyFunctions

Spec == Init /\ [][Next]_vars

----------------------------------------------------------------------------
(* gen_autograd: the library pipeline *)

\* utils.op_name_with_overload(decl): the operator name the selector is
\* keyed by
op_name_with_overload(decl) == decl["operator_name_with_overload"]

\* SelectiveBuilder.is_operator_selected_for_training(op_name), the selector
\* being the set of the names it selects
is_operator_selected_for_training(selector, decl) ==
    op_name_with_overload(decl) \in selector

\* Mutant: nothing is filtered out
filter_decls_keep_all(h, decls, selector) == decls

\* [decl for decl in aten_decls if is_operator_selected_for_training(decl)]
filter_decls(h, decls, selector) ==
    SelectSeq(decls, LAMBDA id : is_operator_selected_for_training(selector, h[id]))

OpNames ==
    {EnrichedPool[raw].fields["operator_name_with_overload"] : raw \in DeclPool}

LibInit ==
    /\ pc = "lib_start"
    /\ declarations_yaml \in DistinctLists(DeclPool, MaxDecls)
    /\ operator_selector \in SUBSET OpNames
    /\ disable_autograd \in BOOLEAN
    /\ deprecated_defs = <<>>
    /\ heap = <<>>
    /\ full_aten_decls = <<>>
    /\ aten_decls = <<>>
    /\ autograd_functions = <<>>
    /\ declarations_by_signature = <<>>
    /\ declarations = <<>>
    /\ spec_idx = 0
    /\ entry_heap = <<>>
    /\ handoff = <<>>
    /\ arg_type = ""
    /\ simple_once = ""
    /\ simple_twice = ""

\* full_aten_decls = load_aten_declarations(aten_path)
LibLoadAtenDeclarations ==
    /\ pc = "lib_start"
    /\ heap' = LoadedHeap(declarations_yaml)
    /\ full_aten_decls' = load_aten_declarations(declarations_yaml)
    /\ pc' = "lib_loaded"
    /\ UNCHANGED <<aten_decls, autograd_functions, declarations_yaml,
                   deprecated_defs, declarations_by_signature, declarations,
                   spec_idx, entry_heap, operator_selector, disable_autograd,
                   handoff>>
    /\ UNCHANGED normVars

\* aten_decls = filter_decls(full_aten_decls, operator_selector)
LibFilterDecls ==
    /\ pc = "lib_loaded"
    /\ aten_decls' = filter_decls(heap, full_aten_decls, operator_selector)
    /\ pc' = "lib_filtered"
    /\ UNCHANGED <<heap, full_aten_decls, autograd_functions,
                   declarations_yaml, deprecated_defs,
                   declarations_by_signature, declarations, spec_idx,
                   entry_heap, operator_selector, disable_autograd, handoff>>
    /\ UNCHANGED normVars

\* autograd_functions = load_derivatives(..., full_aten_decls)
LibLoadDerivatives ==
    /\ pc = "lib_filtered"
    /\ autograd_functions' = [loaded_against |-> full_aten_decls]
    /\ pc' = "lib_derivatives"
    /\ UNCHANGED <<heap, full_aten_decls, aten_decls, declarations_yaml,
                   deprecated_defs, declarations_by_signature, declarations,
                   spec_idx, entry_heap, operator_selector, disable_autograd,
                   handoff>>
    /\ UNCHANGED normVars

\* if not disable_autograd: gen_variable_type(out, aten_decls, template_path)
LibGenVariableType ==
    /\ pc = "lib_derivatives"
    /\ handoff' = IF disable_autograd THEN handoff
                  ELSE handoff @@ ("gen_variable_type" :> aten_decls)
    /\ pc' = "lib_variable_type"
    /\ UNCHANGED <<heap, full_aten_decls, aten_decls, autograd_functions,
                   declarations_yaml, deprecated_defs,
                   declarations_by_signature, declarations, spec_idx,
                   entry_heap, operator_selector, disable_autograd>>
    /\ UNCHANGED normVars

\* gen_autograd_functions_lib(out, autograd_functions, template_path)
LibGenAutogradFunctions ==
    /\ pc = "lib_variable_type"
    /\ handoff' = handoff @@
          ("gen_autograd_functions_lib" :> autograd_functions.loaded_against)
    /\ pc' = "lib_functions"
    /\ UNCHANGED <<heap, full_aten_decls, aten_decls, autograd_functions,
                   declarations_yaml, deprecated_defs,
                   declarations_by_signature, declarations, spec_idx,
                   entry_heap, operator_selector, disable_autograd>>
    /\ UNCHANGED normVars

\* gen_variable_factories(out, full_aten_decls, template_path)
LibGenVariableFactories ==
    /\ pc = "lib_functions"
    /\ handoff' = handoff @@ ("gen_variable_factories" :> full_aten_decls)
    /\ pc' = "lib_done"
    /\ UNCHANGED <<heap, full_aten_decls, aten_decls, autograd_functions,
                   declarations_yaml, deprecated_defs,
                   declarations_by_signature, declarations, spec_idx,
                   entry_heap, operator_selector, disable_autograd>>
    /\ UNCHANGED normVars

LibNext ==
    \/ LibLoadAtenDeclarations
    \/ LibFilterDecls
    \/ LibLoadDerivatives
    \/ LibGenVariableType
    \/ LibGenAutogradFunctions
    \/ LibGenVariableFactories

SpecLib == LibInit /\ [][LibNext]_vars

----------------------------------------------------------------------------
(* The normalizer run on its own: a raw type string assembled from         *)
(* fragments of type spellings, normalized once and then once more.        *)

Fragments ==
    {"const ", " &", "con", "st ", " ", "&", "c10::optional<", ">",
     "c10::optional<int64_t>", "Tensor", "Generator *"}

RECURSIVE TypeStrings(_)
TypeStrings(n) ==
    IF n = 0 THEN {""}
    ELSE LET shorter == TypeStrings(n - 1)
         IN  shorter \cup {s \o f : s \in shorter, f \in Fragments}

NormInit ==
    /\ pc = "norm_start"
    /\ arg_type \in TypeStrings(MaxFrags) \ {""}
    /\ simple_once = ""
    /\ simple_twice = ""
    /\ heap = <<>>
    /\ full_aten_decls = <<>>
    /\ aten_decls = <<>>
    /\ autograd_functions = <<>>
    /\ declarations_yaml = <<>>
    /\ deprecated_defs = <<>>
    /\ declarations_by_signature = <<>>
    /\ declarations = <<>>
    /\ spec_idx = 0
    /\ entry_heap = <<>>
    /\ operator_selector = {}
    /\ disable_autograd = FALSE
    /\ handoff = <<>>

Normalize ==
    /\ pc = "norm_start"
    /\ simple_once' = get_simple_type([type |-> arg_type])
    /\ pc' = "norm_once"
    /\ UNCHANGED <<arg_type, simple_twice>>
    /\ UNCHANGED pipeVars

Renormalize ==
    /\ pc = "norm_once"
    /\ simple_twice' = get_simple_type([type |-> simple_once])
    /\ pc' = "norm_twice"
    /\ UNCHANGED <<arg_type, simple_once>>
    /\ UNCHANGED pipeVars

NormNext == Normalize \/ Renormalize

SpecNorm == NormInit /\ [][NormNext]_vars

----------------------------------------------------------------------------
(* Vocabulary of the claims about the resolver, stated over the inputs:    *)
(* the canonical declarations as load_deprecated_signatures received them  *)
(* (entry_heap) and the entries of deprecated.yaml.                        *)

Grouped == pc \in {"resolve", "failed", "py_resolved", "py_done"}

Returned == pc \in {"py_resolved", "py_done"}

\* The legacy (type, name) pairs, callee and call arguments of every entry
\* of the pool, evaluated once
LegacyPool ==
    [d \in SpecPool |->
        [pairs |-> ParamPairs(ParsedPool[d].params),
         aten_name |-> ParsedPool[d].aten_name,
         call_args |-> ParsedPool[d].call_args]]

LegacyNames(d) == {LegacyPool[d].pairs[j][2] : j \in DOMAIN LegacyPool[d].pairs}

\* The type the legacy parameter list declares for a name
LegacyType(d, name) ==
    LET pairs == LegacyPool[d].pairs
        j == CHOOSE j \in DOMAIN pairs :
                /\ pairs[j][2] = name
                /\ \A l \in DOMAIN pairs : pairs[l][2] = name => l <= j
    IN  pairs[j][1]

\* The rearranged types: per call argument the legacy type of that name, or
\* the generic scalar type for a literal
RearrangedTypes(d) ==
    [i \in DOMAIN LegacyPool[d].call_args |->
        IF LegacyPool[d].call_args[i] \in LegacyNames(d)
        THEN LegacyType(d, LegacyPool[d].call_args[i])
        ELSE "Scalar"]

CanonicalArgs(id) == entry_heap[entry_heap[id]["arguments"]]

CanonicalTypes(id) ==
    [i \in DOMAIN CanonicalArgs(id) |-> CanonicalArgs(id)[i]["simple_type"]]

\* The base name: the name without its last character when in-place
CanonicalBaseName(id) ==
    IF entry_heap[id]["inplace"]
    THEN SubSeq(entry_heap[id]["name"], 1, Len(entry_heap[id]["name"]) - 1)
    ELSE entry_heap[id]["name"]

\* The entry's erased signature is that of canonical declaration id
Matches(d, id) ==
    /\ CanonicalBaseName(id) = LegacyPool[d].aten_name
    /\ CanonicalTypes(id) = RearrangedTypes(d)

Unmatched(d) == \A id \in Range(aten_decls) : ~Matches(d, id)

\* The entry has a legacy parameter whose name is no call argument
MissingName(d) == \E n \in LegacyNames(d) : n \notin Range(LegacyPool[d].call_args)

\* Entry by entry, the canonical declarations it matches, in input order
RECURSIVE ExpectedFrom(_)
ExpectedFrom(s) ==
    IF s > Len(deprecated_defs) THEN <<>>
    ELSE LET bucket == SelectSeq(aten_decls,
                           LAMBDA id : Matches(deprecated_defs[s], id))
         IN  [k \in DOMAIN bucket |-> [spec |-> s, id |-> bucket[k]]]
                \o ExpectedFrom(s + 1)

Expected == ExpectedFrom(1)

FirstPos(seq, x) ==
    CHOOSE i \in DOMAIN seq :
        seq[i] = x /\ \A j \in DOMAIN seq : seq[j] = x => i <= j

LastPos(seq, x) ==
    CHOOSE i \in DOMAIN seq :
        seq[i] = x /\ \A j \in DOMAIN seq : seq[j] = x => j <= i

\* The fields of a resolved argument the canonical argument supplies
Sourced(argument) ==
    [type |-> argument["type"],
     simple_type |-> argument["simple_type"],
     dynamic_type |-> argument["dynamic_type"],
     output |-> DictGet(argument, "output", FALSE)]

ResolvedArgs(k) == heap[heap[declarations[k]]["arguments"]]

\* Resolved declaration k has one argument per legacy parameter, in legacy
\* order and under the legacy name, sourced from the canonical argument at
\* the last (or else the first) position of that name among the call
\* arguments
ArgumentsFrom(k, last) ==
    LET d == deprecated_defs[Expected[k].spec]
        pairs == LegacyPool[d].pairs
        call_args == LegacyPool[d].call_args
        args == ResolvedArgs(k)
    IN  /\ Len(args) = Len(pairs)
        /\ \A j \in DOMAIN pairs :
              /\ args[j]["name"] = pairs[j][2]
              /\ pairs[j][2] \in Range(call_args)
              /\ Sourced(args[j]) =
                    Sourced(CanonicalArgs(Expected[k].id)
                                [IF last THEN LastPos(call_args, pairs[j][2])
                                 ELSE FirstPos(call_args, pairs[j][2])])

\* The resolved list has the expected length
WellFormedResult == Len(declarations) = Len(Expected)

----------------------------------------------------------------------------
(* C1 as stated: every resolved declaration has one argument per legacy    *)
(* parameter, in legacy order, named as the legacy parameter and typed as  *)
(* the canonical argument at the FIRST position of that name among the     *)
(* call arguments.                                                         *)
C1_ArgumentsFromFirstPosition ==
    Returned =>
        /\ WellFormedResult
        /\ \A k \in DOMAIN declarations : ArgumentsFrom(k, FALSE)

(* C1 amended: the same, with the canonical argument taken at the LAST     *)
(* position of that name among the call arguments.                         *)
C1_ArgumentsFromLastPosition ==
    Returned =>
        /\ WellFormedResult
        /\ \A k \in DOMAIN declarations : ArgumentsFrom(k, TRUE)

\* A run returned a declaration resolved from an entry that passes one name
\* twice, to a canonical declaration whose arguments there differ
C1_Witness ==
    /\ Returned
    /\ \E k \in DOMAIN declarations :
         LET d == deprecated_defs[Expected[k].spec]
             call_args == LegacyPool[d].call_args
         IN  \E n \in LegacyNames(d) :
                /\ n \in Range(call_args)
                /\ FirstPos(call_args, n) # LastPos(call_args, n)
                /\ Sourced(CanonicalArgs(Expected[k].id)[FirstPos(call_args, n)])
                     # Sourced(CanonicalArgs(Expected[k].id)[LastPos(call_args, n)])

----------------------------------------------------------------------------
(* C2: resolving an entry whose erased signature matches no canonical      *)
(* declaration adds nothing to the resolved list, keeps what it held and   *)
(* moves on to the next entry without failing.                             *)
C2_UnmatchedSkipped ==
    [][ ( /\ pc = "resolve"
          /\ spec_idx <= Len(deprecated_defs)
          /\ Unmatched(deprecated_defs[spec_idx]) )
        => ( /\ pc' = "resolve"
             /\ declarations' = declarations
             /\ spec_idx' = spec_idx + 1 ) ]_vars

\* A run returned entries although its first entry matched nothing, and a
\* run kept an earlier entry's declarations past an unmatched entry
C2_Witness ==
    /\ Returned
    /\ Len(deprecated_defs) = 2
    /\ Len(declarations) > 0
    /\ Unmatched(deprecated_defs[1])
    /\ ~MissingName(deprecated_defs[1])

----------------------------------------------------------------------------
(* C3: resolving an entry with a legacy parameter whose name is no call    *)
(* argument either fails or adds nothing to the resolved list.             *)
C3_MissingNameFailsOrSkips ==
    [][ ( /\ pc = "resolve"
          /\ spec_idx <= Len(deprecated_defs)
          /\ MissingName(deprecated_defs[spec_idx]) )
        => ( /\ declarations' = declarations
             /\ \/ pc' = "failed"
                \/ pc' = "resolve" /\ spec_idx' = spec_idx + 1 ) ]_vars

\* A run skipped such an entry that matched nothing and then failed on such
\* an entry that matched a canonical declaration
C3_Witness ==
    /\ pc = "failed"
    /\ spec_idx = 2
    /\ MissingName(deprecated_defs[1]) /\ Unmatched(deprecated_defs[1])
    /\ MissingName(deprecated_defs[2]) /\ ~Unmatched(deprecated_defs[2])

----------------------------------------------------------------------------
(* C4: two canonical declarations share a bucket of the grouping exactly   *)
(* when they have the same base name and the same sequence of argument     *)
(* simple types.                                                           *)
SameBucket(a, b) ==
    \E key \in DOMAIN declarations_by_signature :
        /\ a \in Range(declarations_by_signature[key])
        /\ b \in Range(declarations_by_signature[key])

C4_BucketIffSameKey ==
    Grouped =>
        \A a, b \in Range(aten_decls) :
            SameBucket(a, b) <=>
                /\ CanonicalBaseName(a) = CanonicalBaseName(b)
                /\ CanonicalTypes(a) = CanonicalTypes(b)

\* Two declarations with different names and different argument records
\* share a bucket, and two others do not
C4_Witness ==
    /\ Grouped
    /\ \E a, b \in Range(aten_decls) :
         /\ SameBucket(a, b)
         /\ entry_heap[a]["name"] # entry_heap[b]["name"]
         /\ CanonicalArgs(a) # CanonicalArgs(b)

----------------------------------------------------------------------------
(* C6: two enriched declarations with different (name, overload_name)      *)
(* pairs never have the same type_wrapper_name.                            *)
C6_WrapperNameInjective ==
    pc = "py_loaded" =>
        \A a, b \in Range(aten_decls) :
            (heap[a]["type_wrapper_name"] = heap[b]["type_wrapper_name"])
                => /\ heap[a]["name"] = heap[b]["name"]
                   /\ heap[a]["overload_name"] = heap[b]["overload_name"]

----------------------------------------------------------------------------
(* C7: resolution leaves every object it was given as it found it, and no  *)
(* resolved declaration is a canonical declaration or shares its arguments *)
(* list with one.                                                          *)
C7_CanonicalUnchanged ==
    Grouped =>
        /\ \A i \in DOMAIN entry_heap : heap[i] = entry_heap[i]
        /\ \A r \in Range(declarations) :
              /\ r \notin DOMAIN entry_heap
              /\ heap[r]["arguments"] \notin DOMAIN entry_heap

\* A run returned resolved declarations of two canonical declarations
C7_Witness ==
    /\ pc = "py_done"
    /\ Len(declarations) >= 2
    /\ Len(handoff["gen_py_torch_functions"]) = Len(aten_decls) + Len(declarations)

----------------------------------------------------------------------------
(* C9: the returned list is, entry by entry of deprecated.yaml, one        *)
(* resolved declaration per matching canonical declaration in input order; *)
(* each is that declaration apart from its arguments, flagged deprecated   *)
(* and carrying the entry's call arguments.                                *)
C9_ResolvedInOrder ==
    Returned =>
        /\ WellFormedResult
        /\ \A k \in DOMAIN declarations :
              LET r == heap[declarations[k]]
                  canonical == entry_heap[Expected[k].id]
              IN  /\ r["deprecated"] = TRUE
                  /\ r["call_args"] =
                        LegacyPool[deprecated_defs[Expected[k].spec]].call_args
                  /\ \A key \in DOMAIN canonical \ {"arguments"} :
                        r[key] = canonical[key]

\* A run returned the declarations of two entries, one of them matching two
\* canonical declarations
C9_Witness ==
    /\ Returned
    /\ Len(declarations) >= 3
    /\ Expected[1].spec = 1 /\ Expected[2].spec = 1
    /\ Expected[Len(Expected)].spec = 2

----------------------------------------------------------------------------
(* C10: when an entry's legacy parameter names are pairwise distinct and   *)
(* all occur among its call arguments, every argument of every declaration *)
(* resolved from it has the simple type the legacy parameter list declares *)
(* for its name.                                                           *)
DistinctLegacyNames(d) ==
    \A i, j \in DOMAIN LegacyPool[d].pairs :
        LegacyPool[d].pairs[i][2] = LegacyPool[d].pairs[j][2] => i = j

C10_SimpleTypeIsLegacyType ==
    Returned =>
        /\ WellFormedResult
        /\ \A k \in DOMAIN declarations :
              LET d == deprecated_defs[Expected[k].spec]
              IN  (DistinctLegacyNames(d) /\ ~MissingName(d)) =>
                      \A j \in DOMAIN ResolvedArgs(k) :
                          ResolvedArgs(k)[j]["simple_type"] =
                              LegacyType(d, ResolvedArgs(k)[j]["name"])

\* A run returned a declaration resolved from an entry that passes one name
\* twice
C10_Witness ==
    /\ Returned
    /\ \E k \in DOMAIN declarations :
         LET d == deprecated_defs[Expected[k].spec]
         IN  /\ DistinctLegacyNames(d) /\ ~MissingName(d)
             /\ \E n \in LegacyNames(d) :
                   FirstPos(LegacyPool[d].call_args, n)
                       # LastPos(LegacyPool[d].call_args, n)

----------------------------------------------------------------------------
(* Vocabulary of the claim about the library pipeline *)

Selected(id) == heap[id]["operator_name_with_overload"] \in operator_selector

HandedTo(emitter) == emitter \in DOMAIN handoff

(* C8 as stated: the declarations behind what the gradient-node emitter    *)
(* gets and the declarations the factory-function emitter gets are all     *)
(* selected for training.                                                  *)
C8_EveryHandoffFiltered ==
    pc = "lib_done" =>
        \A emitter \in {"gen_autograd_functions_lib", "gen_variable_factories"} :
            HandedTo(emitter) /\ \A id \in Range(handoff[emitter]) : Selected(id)

(* C8 amended: gen_variable_type gets exactly the selected declarations,   *)
(* in order; the derivative rules behind the gradient-node emitter are     *)
(* loaded against the full list, and the factory-function emitter gets the *)
(* full list.                                                              *)
C8_OnlyVariableTypeFiltered ==
    /\ HandedTo("gen_variable_type") =>
          /\ ~disable_autograd
          /\ handoff["gen_variable_type"] = SelectSeq(full_aten_decls, Selected)
    /\ HandedTo("gen_autograd_functions_lib") =>
          handoff["gen_autograd_functions_lib"] = full_aten_decls
    /\ HandedTo("gen_variable_factories") =>
          handoff["gen_variable_factories"] = full_aten_decls

\* A run handed a filtered list that dropped a declaration and kept one
C8_Witness ==
    /\ pc = "lib_done"
    /\ HandedTo("gen_variable_type")
    /\ handoff["gen_variable_type"] # <<>>
    /\ handoff["gen_variable_type"] # handoff["gen_variable_factories"]

----------------------------------------------------------------------------
(* C5: type normalization is idempotent: normalizing an already normalized *)
(* type string returns it unchanged.                                       *)
C5_Idempotent == pc = "norm_twice" => simple_twice = simple_once

====
